---- MODULE Spec2Model ----
(***************************************************************************)
(* A model of two components of the goose repository:                      *)
(*   - Conversation (crates/goose/src/conversation.rs): the ordered        *)
(*     sequence of messages and the rule that merges an incoming message   *)
(*     into the tail;                                                      *)
(*   - the UltraThink memory store (crates/goose-mcp/src/ultrathink):      *)
(*     remember / retrieve over per-category text files.                   *)
(* Strings are sequences of one-character strings, so that formatting and  *)
(* parsing are computed character by character as the code does.           *)
(***************************************************************************)
EXTENDS Integers, Sequences, FiniteSets, TLC

VARIABLES
    messages,   \* Conversation.messages
    cpre,       \* the messages before the last Conversation operation
    cop,        \* the last Conversation operation and its argument
    fs,         \* the memory directories and the category files in them
    spre,       \* fs before the last store operation
    sop,        \* the last store operation and its arguments
    sres,       \* what the last store operation returned
    log,        \* the records appended so far, in order
    writers,    \* the remember calls in progress, each at its next file write
    graphiti    \* the GraphitiClient and the environment variables it reads

convVars == <<messages, cpre, cop>>
storeVars == <<fs, spre, sop, sres, log, writers, graphiti>>
vars == <<messages, cpre, cop, fs, spre, sop, sres, log, writers, graphiti>>

(***************************************************************************)
(* Bounds of the conversation model.                                       *)
(***************************************************************************)
MaxSize == 6        \* messages + content blocks + characters of text held
MaxInBlocks == 2    \* content blocks of an incoming message
MaxInit == 2        \* messages handed to Conversation::new

(***************************************************************************)
(* Bounds of the store model.                                              *)
(***************************************************************************)
MaxRecords == 2     \* records appended in one run
MaxStoreSize == 7   \* records + content lines + tags appended in one run

(***************************************************************************)
(* Generic sequence helpers.                                               *)
(***************************************************************************)
SeqsUpTo(S, n) == UNION {[1..k -> S] : k \in 0..n}

Last(s) == s[Len(s)]

Front(s) == SubSeq(s, 1, Len(s) - 1)

Min(a, b) == IF a <= b THEN a ELSE b

(***************************************************************************)
(* Messages.  Message.id is Option<String>: NoId is None.  MessageContent  *)
(* is Text(text) or some other variant, opaque to the conversation.        *)
(***************************************************************************)
NoId == 0

Ids == {1, 2}

Text(s) == [kind |-> "Text", text |-> s]

Other == [kind |-> "Other", text |-> <<>>]

Message(id, content) == [id |-> id, content |-> content]

\* The blocks of a message handed to push_message: its text is "b", so that
\* it is told from the text "a" a conversation starts with.
InBlocks == {Text(<<"b">>), Other}

InMsgs == {Message(i, c) : i \in Ids \cup {NoId}, c \in SeqsUpTo(InBlocks, MaxInBlocks)}

\* The single-block messages: the elements of a sequence handed to new, push
\* and extend.
ExtMsgs == {Message(i, <<b>>) : i \in Ids \cup {NoId}, b \in {Text(<<"a">>), Other}}

\* The pairs of messages handed to extend.
ExtPairs == {ms \in [1..2 -> ExtMsgs] : ms[1].content = ms[2].content}

RECURSIVE ContentSize(_)
ContentSize(content) ==
    IF content = <<>> THEN 0
    ELSE 1 + Len(content[1].text) + ContentSize(Tail(content))

RECURSIVE Size(_)
Size(msgs) ==
    IF msgs = <<>> THEN 0
    ELSE 1 + ContentSize(msgs[1].content) + Size(Tail(msgs))

Bounded(msgs) == Size(msgs) <= MaxSize

(***************************************************************************)
(* Conversation::push_message, as a function of the messages held and the  *)
(* incoming message.                                                       *)
(***************************************************************************)
\* Mutant: the is_some() test of the filter is missing, so None matches None.
IdMatches_no_is_some(msgs, message) ==
    /\ Len(msgs) > 0
    /\ Last(msgs).id = message.id

IdMatches(msgs, message) ==
    /\ Len(msgs) > 0
    /\ Last(msgs).id # NoId
    /\ Last(msgs).id = message.id

\* Mutant: the guard message.content.len() == 1 is missing.
TextCase_no_len_guard(last, message) ==
    /\ Len(last.content) > 0
    /\ Last(last.content).kind = "Text"
    /\ Len(message.content) > 0
    /\ Last(message.content).kind = "Text"

TextCase(last, message) ==
    /\ Len(last.content) > 0
    /\ Last(last.content).kind = "Text"
    /\ Len(message.content) > 0
    /\ Last(message.content).kind = "Text"
    /\ Len(message.content) = 1

\* Mutant: every message is pushed as a new element, none is merged.
push_message_never_merges(msgs, message) == Append(msgs, message)

\* Mutant: the incoming text is put before the existing text.
push_message_prepends(msgs, message) ==
    IF IdMatches(msgs, message)
    THEN LET last == Last(msgs)
             merged ==
                 IF TextCase(last, message)
                 THEN [last EXCEPT !.content =
                          Front(last.content) \o
                          <<Text(Last(message.content).text \o Last(last.content).text)>>]
                 ELSE [last EXCEPT !.content = last.content \o message.content]
         IN  Front(msgs) \o <<merged>>
    ELSE Append(msgs, message)

\* Mutant: a merge always extends the block sequence, text is never concatenated.
push_message_always_extends(msgs, message) ==
    IF IdMatches(msgs, message)
    THEN Front(msgs) \o
         <<[Last(msgs) EXCEPT !.content = Last(msgs).content \o message.content]>>
    ELSE Append(msgs, message)

\* Mutant: a message that is not merged is put at the head.
push_message_pushes_front(msgs, message) ==
    IF IdMatches(msgs, message)
    THEN LET last == Last(msgs)
             merged ==
                 IF TextCase(last, message)
                 THEN [last EXCEPT !.content =
                          Front(last.content) \o
                          <<Text(Last(last.content).text \o Last(message.content).text)>>]
                 ELSE [last EXCEPT !.content = last.content \o message.content]
         IN  Front(msgs) \o <<merged>>
    ELSE <<message>> \o msgs

\* Mutant: the incoming text replaces the text of the last block.
push_message_replaces_text(msgs, message) ==
    IF IdMatches(msgs, message)
    THEN LET last == Last(msgs)
             merged ==
                 IF TextCase(last, message)
                 THEN [last EXCEPT !.content =
                          Front(last.content) \o <<Text(Last(message.content).text)>>]
                 ELSE [last EXCEPT !.content = last.content \o message.content]
         IN  Front(msgs) \o <<merged>>
    ELSE Append(msgs, message)

push_message(msgs, message) ==
    IF IdMatches(msgs, message)
    THEN LET last == Last(msgs)
             merged ==
                 IF TextCase(last, message)
                 THEN [last EXCEPT !.content =
                          Front(last.content) \o
                          <<Text(Last(last.content).text \o Last(message.content).text)>>]
                 ELSE [last EXCEPT !.content = last.content \o message.content]
         IN  Front(msgs) \o <<merged>>
    ELSE Append(msgs, message)

RECURSIVE extend(_, _)
extend(msgs, iter) ==
    IF iter = <<>> THEN msgs
    ELSE extend(push_message(msgs, iter[1]), Tail(iter))

pop(msgs) == IF msgs = <<>> THEN msgs ELSE Front(msgs)

\* Mutant: the last len messages are kept instead of the first.
truncate_keeps_tail(msgs, len) ==
    SubSeq(msgs, Len(msgs) - Min(len, Len(msgs)) + 1, Len(msgs))

truncate(msgs, len) == SubSeq(msgs, 1, Min(len, Len(msgs)))

\* Conversation::first / last: Option<&Message>, None is <<>>.
first(msgs) == IF msgs = <<>> THEN <<>> ELSE <<msgs[1]>>

last(msgs) == IF msgs = <<>> THEN <<>> ELSE <<msgs[Len(msgs)]>>

(***************************************************************************)
(* Strings of the store: sequences of one-character strings.               *)
(***************************************************************************)
NL == "\n"

CR == "\r"

SP == " "

HASH == "#"

\* The characters char::is_whitespace accepts, among those the model uses.
Whitespace == {SP, NL, CR, "\t"}

\* [String]::join(sep)
RECURSIVE Join(_, _)
Join(strs, sep) ==
    IF strs = <<>> THEN <<>>
    ELSE IF Len(strs) = 1 THEN strs[1]
    ELSE strs[1] \o sep \o Join(Tail(strs), sep)

\* HashMap::new() and HashMap::insert(k, v): a map is a function on its keys.
EmptyMap == <<>>

MapPut(m, k, v) == [x \in (DOMAIN m) \cup {k} |-> IF x = k THEN v ELSE m[x]]

\* io::Result: Ok(value) or Err(io::Error of some ErrorKind).
OkRes(v) == [ok |-> TRUE, err |-> "", value |-> v]

ErrRes(kind) == [ok |-> FALSE, err |-> kind, value |-> <<>>]

DotTxt == <<".", "t", "x", "t">>

Untagged == <<"u", "n", "t", "a", "g", "g", "e", "d">>

Thinking == <<"t", "h", "i", "n", "k", "i", "n", "g">>

Sequential == <<"s", "e", "q", "u", "e", "n", "t", "i", "a", "l">>

Analysis == <<"A", "n", "a", "l", "y", "s", "i", "s">>

(***************************************************************************)
(* The file system: fs.dirs holds the scopes (is_global) whose memory      *)
(* directory exists, fs.files[scope] maps a file name to its content.      *)
(***************************************************************************)
EmptyFs == [dirs |-> {}, files |-> [g \in BOOLEAN |-> EmptyMap]]

get_memory_file(category, is_global) ==
    [scope |-> is_global, name |-> category \o DotTxt]

Exists(f, path) == path.name \in DOMAIN f.files[path.scope]

Content(f, path) == IF Exists(f, path) THEN f.files[path.scope][path.name] ELSE <<>>

(***************************************************************************)
(* UltraThinkRouter::remember: the bytes one call appends, and the file    *)
(* system after it.                                                        *)
(***************************************************************************)
\* writeln!(file, "# {}", tags.join(" "))
TagLine(tags) == <<HASH, SP>> \o Join(tags, <<SP>>) \o <<NL>>

\* writeln!(file, "{}\n", data)
DataLines(data) == data \o <<NL>> \o <<NL>>

RecordBytes(data, tags) ==
    (IF tags # <<>> THEN TagLine(tags) ELSE <<>>) \o DataLines(data)

\* Mutant: the file is opened for writing without append, so that the record
\* replaces what the file held.
remember_truncates(f, category, data, tags, is_global) ==
    LET path == get_memory_file(category, is_global)
        bytes == RecordBytes(data, tags)
    IN  [fs |-> [dirs |-> f.dirs \cup {path.scope},
                 files |-> [f.files EXCEPT ![path.scope] = MapPut(@, path.name, bytes)]],
         res |-> OkRes(<<>>)]

remember(f, category, data, tags, is_global) ==
    LET path == get_memory_file(category, is_global)
        bytes == Content(f, path) \o RecordBytes(data, tags)
    IN  [fs |-> [dirs |-> f.dirs \cup {path.scope},
                 files |-> [f.files EXCEPT ![path.scope] = MapPut(@, path.name, bytes)]],
         res |-> OkRes(<<>>)]

(***************************************************************************)
(* UltraThinkRouter::retrieve and the std string functions it uses.        *)
(***************************************************************************)
\* The first index i >= from with s[i] = s[i+1] = "\n", or 0.
RECURSIVE FindSeparator(_, _)
FindSeparator(s, from) ==
    IF from + 1 > Len(s) THEN 0
    ELSE IF s[from] = NL /\ s[from + 1] = NL THEN from
    ELSE FindSeparator(s, from + 1)

\* str::split("\n\n")
RECURSIVE SplitRecords(_)
SplitRecords(s) ==
    LET i == FindSeparator(s, 1)
    IN  IF i = 0 THEN <<s>>
        ELSE <<SubSeq(s, 1, i - 1)>> \o SplitRecords(SubSeq(s, i + 2, Len(s)))

RECURSIVE FindNewline(_, _)
FindNewline(s, from) ==
    IF from > Len(s) THEN 0
    ELSE IF s[from] = NL THEN from
    ELSE FindNewline(s, from + 1)

\* str::lines(): lines end at "\n" or "\r\n"; no line after a final "\n".
RECURSIVE Lines(_)
Lines(s) ==
    IF s = <<>> THEN <<>>
    ELSE LET i == FindNewline(s, 1)
             line == SubSeq(s, 1, i - 1)
         IN  IF i = 0 THEN <<s>>
             ELSE <<IF line # <<>> /\ Last(line) = CR THEN Front(line) ELSE line>>
                  \o Lines(SubSeq(s, i + 1, Len(s)))

\* str::split_whitespace(): the maximal runs of non-whitespace characters.
RECURSIVE SplitWhitespaceFrom(_, _)
SplitWhitespaceFrom(s, token) ==
    IF s = <<>> THEN (IF token = <<>> THEN <<>> ELSE <<token>>)
    ELSE IF s[1] \in Whitespace
         THEN (IF token = <<>> THEN <<>> ELSE <<token>>)
              \o SplitWhitespaceFrom(Tail(s), <<>>)
         ELSE SplitWhitespaceFrom(Tail(s), Append(token, s[1]))

split_whitespace(s) == SplitWhitespaceFrom(s, <<>>)

\* Mutant: the tag line is kept among the content lines of a tagged record.
ParseEntry_keeps_tag_line(entry, memories) ==
    LET lines == Lines(entry)
    IN  IF lines = <<>> THEN memories
        ELSE IF lines[1] # <<>> /\ lines[1][1] = HASH
             THEN MapPut(memories,
                         Join(split_whitespace(Tail(lines[1])), <<SP>>),
                         lines)
             ELSE MapPut(memories, Untagged,
                         (IF Untagged \in DOMAIN memories
                          THEN memories[Untagged] ELSE <<>>) \o lines)

\* Mutant: an untagged record replaces the "untagged" bucket, as insert does.
ParseEntry_untagged_overwrites(entry, memories) ==
    LET lines == Lines(entry)
    IN  IF lines = <<>> THEN memories
        ELSE IF lines[1] # <<>> /\ lines[1][1] = HASH
             THEN MapPut(memories,
                         Join(split_whitespace(Tail(lines[1])), <<SP>>),
                         Tail(lines))
             ELSE MapPut(memories, Untagged, lines)

\* Mutant: the first line of an untagged record is consumed by the test for
\* the marker and not put back before the other lines.
ParseEntry_untagged_drops_first(entry, memories) ==
    LET lines == Lines(entry)
    IN  IF lines = <<>> THEN memories
        ELSE IF lines[1] # <<>> /\ lines[1][1] = HASH
             THEN MapPut(memories,
                         Join(split_whitespace(Tail(lines[1])), <<SP>>),
                         Tail(lines))
             ELSE MapPut(memories, Untagged,
                         (IF Untagged \in DOMAIN memories
                          THEN memories[Untagged] ELSE <<>>) \o Tail(lines))

\* Mutant: a record that is only a tag line is skipped, as an empty entry is.
ParseEntry_skips_tag_only(entry, memories) ==
    LET lines == Lines(entry)
    IN  IF lines = <<>> THEN memories
        ELSE IF lines[1] # <<>> /\ lines[1][1] = HASH
             THEN (IF Tail(lines) = <<>> THEN memories
                   ELSE MapPut(memories,
                               Join(split_whitespace(Tail(lines[1])), <<SP>>),
                               Tail(lines)))
             ELSE MapPut(memories, Untagged,
                         (IF Untagged \in DOMAIN memories
                          THEN memories[Untagged] ELSE <<>>) \o lines)

\* One pass of the loop over content.split("\n\n").
ParseEntry(entry, memories) ==
    LET lines == Lines(entry)
    IN  IF lines = <<>> THEN memories
        ELSE IF lines[1] # <<>> /\ lines[1][1] = HASH
             THEN MapPut(memories,
                         Join(split_whitespace(Tail(lines[1])), <<SP>>),
                         Tail(lines))
             ELSE MapPut(memories, Untagged,
                         (IF Untagged \in DOMAIN memories
                          THEN memories[Untagged] ELSE <<>>) \o lines)

RECURSIVE ParseEntries(_, _)
ParseEntries(entries, memories) ==
    IF entries = <<>> THEN memories
    ELSE ParseEntries(Tail(entries), ParseEntry(entries[1], memories))

\* A byte that occurs in no UTF-8 encoding (0xFF): a file holding it is not
\* valid UTF-8, and read_to_string fails on it with ErrorKind::InvalidData.
InvalidByte == "0xFF"

ValidUtf8(bytes) == \A i \in 1..Len(bytes) : bytes[i] # InvalidByte

\* Mutant: the file is opened without the exists() test.
retrieve_opens_unchecked(f, category, is_global) ==
    LET path == get_memory_file(category, is_global)
    IN  IF ~Exists(f, path) THEN ErrRes("NotFound")
        ELSE IF ~ValidUtf8(Content(f, path)) THEN ErrRes("InvalidData")
        ELSE OkRes(ParseEntries(SplitRecords(Content(f, path)), EmptyMap))

retrieve(f, category, is_global) ==
    LET path == get_memory_file(category, is_global)
    IN  IF ~Exists(f, path) THEN OkRes(EmptyMap)
        ELSE IF ~ValidUtf8(Content(f, path)) THEN ErrRes("InvalidData")
        ELSE OkRes(ParseEntries(SplitRecords(Content(f, path)), EmptyMap))

(***************************************************************************)
(* UltraThinkRouter::retrieve_all.  fs::read_dir yields the entries of a   *)
(* directory in an order the platform chooses, and a HashMap is iterated   *)
(* in an order its hasher chooses: retrieve_all is the set of the results  *)
(* over all these orders.                                                  *)
(***************************************************************************)
\* The sequences that hold every element of S once.
Orders(S) ==
    {o \in [1..Cardinality(S) -> S] : \A i, j \in 1..Cardinality(S) : o[i] = o[j] => i = j}

IsPrefixAt(s, pat, i) ==
    /\ i + Len(pat) - 1 <= Len(s)
    /\ SubSeq(s, i, i + Len(pat) - 1) = pat

\* str::replace(pat, ""): every non-overlapping match, from the left, removed.
RECURSIVE Remove(_, _)
Remove(s, pat) ==
    IF s = <<>> THEN <<>>
    ELSE IF IsPrefixAt(s, pat, 1) THEN Remove(SubSeq(s, Len(pat) + 1, Len(s)), pat)
    ELSE <<s[1]>> \o Remove(Tail(s), pat)

\* into_iter().flat_map(|(_, v)| v).collect() with the buckets in the order keys.
RECURSIVE FlatMap(_, _)
FlatMap(m, keys) ==
    IF keys = <<>> THEN <<>>
    ELSE m[keys[1]] \o FlatMap(m, Tail(keys))

Flattenings(m) == {FlatMap(m, keys) : keys \in Orders(DOMAIN m)}

\* The loop over the directory entries names, from the map memories.
RECURSIVE RetrieveAllFrom(_, _, _, _)
RetrieveAllFrom(f, is_global, names, memories) ==
    IF names = <<>> THEN {OkRes(memories)}
    ELSE LET category == Remove(names[1], DotTxt)
             category_memories == retrieve(f, category, is_global)
         IN  IF ~category_memories.ok THEN {ErrRes(category_memories.err)}
             ELSE UNION {RetrieveAllFrom(f, is_global, Tail(names),
                                         MapPut(memories, category, flat)) :
                            flat \in Flattenings(category_memories.value)}

retrieve_all(f, is_global) ==
    IF is_global \notin f.dirs THEN {OkRes(EmptyMap)}
    ELSE UNION {RetrieveAllFrom(f, is_global, names, EmptyMap) :
                   names \in Orders(DOMAIN f.files[is_global])}

(***************************************************************************)
(* UltraThinkArgs::from_value.  A JSON field that may be absent is <<>>    *)
(* (absent) or <<v>>; args.tags is [kind, items] with kind "array",        *)
(* "string" or "absent".                                                   *)
(***************************************************************************)
from_value(args) ==
    IF args.category = <<>> THEN ErrRes("InvalidInput")
    ELSE IF args.category[1] = <<>> THEN ErrRes("InvalidInput")
    ELSE OkRes([category |-> args.category[1],
                data |-> args.data,
                tags |-> IF args.tags.kind \in {"array", "string"}
                         THEN args.tags.items ELSE <<>>,
                is_global |-> IF args.is_global = <<>> THEN FALSE
                              ELSE args.is_global[1]])

\* execute_tool_call, "ultrathink_remember".
tool_remember(f, args) ==
    LET parsed == from_value(args)
        a == parsed.value
    IN  IF ~parsed.ok THEN [fs |-> f, res |-> ErrRes(parsed.err)]
        ELSE remember(f, a.category,
                      IF a.data = <<>> THEN <<>> ELSE a.data[1],
                      a.tags, a.is_global)

\* format!("[{}] {}", stage, thought)
MemoryData(stage, thought) == <<"[">> \o stage \o <<"]", SP>> \o thought

\* execute_tool_call, "ultrathink_sequence".
tool_sequence(f, args) ==
    LET thought == IF args.thought = <<>> THEN <<>> ELSE args.thought[1]
        stage == IF args.stage = <<>> THEN Analysis ELSE args.stage[1]
        save == IF args.save_to_memory = <<>> THEN FALSE ELSE args.save_to_memory[1]
        category == IF args.category = <<>> THEN Thinking ELSE args.category[1]
    IN  IF save
        THEN remember(f, category, MemoryData(stage, thought),
                      <<Sequential, Thinking>>, FALSE)
        ELSE [fs |-> f, res |-> OkRes(<<>>)]

\* The remember calls that may run at once, and a call not in progress.
Writers == {1, 2}

Idle == [pc |-> "idle"]

\* An environment variable is unset (<<>>), set to a string (<<v>>), or set
\* to bytes that are not valid Unicode (a string and the byte 0xFF);
\* std::env::var(name) is Ok(v) only in the second case.
NotUnicode == <<"1", "0xFF">>

EnvValues == {<<>>, <<"1">>, NotUnicode}

env_var(value) == IF value = <<>> \/ value = NotUnicode THEN <<>> ELSE value

\* The environment in which neither variable is set.
EnvUnset == [GRAPHITI_MCP_ENDPOINT |-> <<>>, ULTRATHINK_GRAPHITI_TEST |-> <<>>]

\* GraphitiClient::new()
GraphitiNew(env) == [memory_server_endpoint |-> env_var(env.GRAPHITI_MCP_ENDPOINT)]

\* graphiti.preserve_order: whether serde_json is built with the feature that
\* keeps the keys of an object in insertion order (else they are sorted).
AuxInit ==
    /\ writers = [w \in Writers |-> Idle]
    /\ graphiti = [env |-> EnvUnset, preserve_order |-> FALSE,
                   client |-> GraphitiNew(EnvUnset)]

StoreInit ==
    /\ fs = EmptyFs
    /\ spre = EmptyFs
    /\ sop = [name |-> "new"]
    /\ sres = OkRes(<<>>)
    /\ log = <<>>
    /\ AuxInit

(***************************************************************************)
(* Conversation::new / new_unvalidated / validate: validate returns        *)
(* Ok(self) for every sequence of messages.                                *)
(***************************************************************************)
validate(msgs) == TRUE

ConvInit ==
    /\ messages \in {ms \in SeqsUpTo(ExtMsgs, MaxInit) : validate(ms)}
    /\ cpre = messages
    /\ cop = [name |-> "new", arg |-> messages]
    /\ StoreInit

DoPushMessage(m) ==
    LET after == push_message(messages, m)
    IN  /\ Bounded(after)
        /\ messages' = after
        /\ cpre' = messages
        /\ cop' = [name |-> "push_message", arg |-> m]
        /\ UNCHANGED storeVars

DoPush(m) ==
    LET after == push_message(messages, m)
    IN  /\ Bounded(after)
        /\ messages' = after
        /\ cpre' = messages
        /\ cop' = [name |-> "push", arg |-> m]
        /\ UNCHANGED storeVars

DoExtend(ms) ==
    LET after == extend(messages, ms)
    IN  /\ Bounded(after)
        /\ messages' = after
        /\ cpre' = messages
        /\ cop' = [name |-> "extend", arg |-> ms]
        /\ UNCHANGED storeVars

DoPop ==
    /\ messages' = pop(messages)
    /\ cpre' = messages
    /\ cop' = [name |-> "pop", arg |-> 0]
    /\ UNCHANGED storeVars

DoTruncate(n) ==
    /\ messages' = truncate(messages, n)
    /\ cpre' = messages
    /\ cop' = [name |-> "truncate", arg |-> n]
    /\ UNCHANGED storeVars

DoClear ==
    /\ messages' = <<>>
    /\ cpre' = messages
    /\ cop' = [name |-> "clear", arg |-> 0]
    /\ UNCHANGED storeVars

ConvNext ==
    \/ \E m \in InMsgs : DoPushMessage(m)
    \/ \E m \in ExtMsgs : DoPush(m)
    \/ \E ms \in ExtPairs : DoExtend(ms)
    \/ DoPop
    \/ \E n \in 0..Len(messages) + 1 : DoTruncate(n)
    \/ DoClear

SpecConv == ConvInit /\ [][ConvNext]_vars

(***************************************************************************)
(* The inputs of the store's operations.                                   *)
(***************************************************************************)
CatC == <<"c">>

CatD == <<"d">>

CatX == <<"x">>

CatE == <<"e">>

LineP == <<"p">>

LineQ == <<"q">>

TagT == <<"t">>

TagU == <<"u">>

\* What a direct call of remember is given: the content lines (data is the
\* lines joined by "\n"), the tags, the category and the scope.
RememberInputs ==
    {[category |-> CatC, is_global |-> FALSE, lines |-> l, tags |-> t] :
        l \in {<<>>, <<LineP>>, <<LineQ>>, <<LineP, LineQ>>, <<<<HASH, "p">>>>},
        t \in {<<>>, <<TagT>>}}
    \cup
    {[category |-> CatC, is_global |-> FALSE, lines |-> <<LineP, LineQ>>,
      tags |-> <<TagT, TagU>>],
     [category |-> CatC, is_global |-> FALSE, lines |-> <<LineQ>>, tags |-> <<Untagged>>]}
    \cup
    {[category |-> CatC, is_global |-> FALSE, lines |-> <<LineP, <<>>, LineQ>>, tags |-> t] :
        t \in {<<>>, <<TagT>>}}
    \cup
    {[category |-> CatC, is_global |-> FALSE, lines |-> <<<<"p", CR>>, LineQ>>, tags |-> t] :
        t \in {<<>>, <<TagT>>}}
    \cup
    {[category |-> CatC, is_global |-> FALSE, lines |-> <<LineP>>, tags |-> <<<<"t", SP, SP, "u">>>>],
     [category |-> CatC, is_global |-> TRUE, lines |-> <<LineP>>, tags |-> <<>>],
     [category |-> CatC \o DotTxt, is_global |-> FALSE, lines |-> <<LineQ>>, tags |-> <<>>],
     [category |-> <<>>, is_global |-> FALSE, lines |-> <<LineP>>, tags |-> <<>>]}

\* The arguments of an ultrathink_remember tool call.
ToolRememberArgs ==
    {[category |-> c, data |-> d, tags |-> t, is_global |-> <<>>] :
        c \in {<<>>, <<<<>>>>, <<CatC>>},
        d \in {<<>>, <<LineQ>>},
        t \in {[kind |-> "absent", items |-> <<>>],
               [kind |-> "string", items |-> <<TagT>>]}}

\* The arguments of an ultrathink_sequence tool call.
ToolSequenceArgs ==
    {[category |-> c, thought |-> <<LineP>>, stage |-> <<>>, save_to_memory |-> s] :
        c \in {<<>>, <<<<>>>>, <<CatC>>},
        s \in {<<>>, <<TRUE>>}}

RetrieveTargets ==
    {[category |-> CatC, is_global |-> FALSE],
     [category |-> CatC, is_global |-> TRUE],
     [category |-> CatD, is_global |-> FALSE],
     [category |-> CatX, is_global |-> FALSE],
     [category |-> CatE, is_global |-> TRUE],
     [category |-> CatC \o DotTxt, is_global |-> FALSE]}

LogEntry(category, is_global, lines, tags) ==
    [category |-> category, is_global |-> is_global, lines |-> lines, tags |-> tags]

RECURSIVE StoreSize(_)
StoreSize(entries) ==
    IF entries = <<>> THEN 0
    ELSE 1 + Len(entries[1].lines) + Len(entries[1].tags) + StoreSize(Tail(entries))

StoreBounded(entries) == Len(entries) <= MaxRecords /\ StoreSize(entries) <= MaxStoreSize

(***************************************************************************)
(* The store's operations.                                                 *)
(***************************************************************************)
DoRemember(in) ==
    LET r == remember(fs, in.category, Join(in.lines, <<NL>>), in.tags, in.is_global)
    IN  /\ StoreBounded(Append(log, in))
        /\ fs' = r.fs
        /\ spre' = fs
        /\ sop' = [name |-> "remember", category |-> in.category,
                   is_global |-> in.is_global]
        /\ sres' = r.res
        /\ log' = Append(log, in)
        /\ UNCHANGED <<convVars, writers, graphiti>>

DoToolRemember(args) ==
    LET r == tool_remember(fs, args)
        category == IF args.category = <<>> THEN <<>> ELSE args.category[1]
        is_global == IF args.is_global = <<>> THEN FALSE ELSE args.is_global[1]
        entry == LogEntry(category, is_global, args.data, args.tags.items)
    IN  /\ StoreBounded(Append(log, entry))
        /\ fs' = r.fs
        /\ spre' = fs
        /\ sop' = [name |-> "ultrathink_remember", category |-> category,
                   is_global |-> is_global]
        /\ sres' = r.res
        \* data is one line here or absent: args.data is also its line sequence
        /\ log' = IF r.fs = fs THEN log ELSE Append(log, entry)
        /\ UNCHANGED <<convVars, writers, graphiti>>

DoToolSequence(args) ==
    LET r == tool_sequence(fs, args)
        category == IF args.category = <<>> THEN Thinking ELSE args.category[1]
        entry == LogEntry(category, FALSE, <<MemoryData(Analysis, args.thought[1])>>,
                          <<Sequential, Thinking>>)
    IN  /\ StoreBounded(Append(log, entry))
        /\ fs' = r.fs
        /\ spre' = fs
        /\ sop' = [name |-> IF args.save_to_memory = <<TRUE>>
                            THEN "ultrathink_sequence_save" ELSE "ultrathink_sequence",
                   category |-> category, is_global |-> FALSE]
        /\ sres' = r.res
        /\ log' = IF r.fs = fs THEN log ELSE Append(log, entry)
        /\ UNCHANGED <<convVars, writers, graphiti>>

DoRetrieve(t) ==
    /\ fs' = fs
    /\ spre' = fs
    /\ sop' = [name |-> "retrieve", category |-> t.category, is_global |-> t.is_global]
    /\ sres' = retrieve(fs, t.category, t.is_global)
    /\ UNCHANGED <<log, convVars, writers, graphiti>>

DoRetrieveAll(is_global) ==
    /\ fs' = fs
    /\ spre' = fs
    /\ sop' = [name |-> "retrieve_all", category |-> <<>>, is_global |-> is_global]
    /\ sres' \in retrieve_all(fs, is_global)
    /\ UNCHANGED <<log, convVars, writers, graphiti>>

\* The memory directories as the router finds them: empty, or holding files
\* that were not written by remember: a local file x.txt that is not valid
\* UTF-8 and an empty global file e.txt.
SeededFs ==
    [dirs |-> {FALSE, TRUE},
     files |-> [g \in BOOLEAN |->
                   IF g THEN [n \in {CatE \o DotTxt} |-> <<>>]
                   ELSE [n \in {CatX \o DotTxt} |-> <<"p", InvalidByte, NL>>]]]

InitialFs == {EmptyFs, SeededFs}

Init ==
    /\ fs \in InitialFs
    /\ spre = fs
    /\ sop = [name |-> "new"]
    /\ sres = OkRes(<<>>)
    /\ log = <<>>
    /\ AuxInit
    /\ messages = <<>>
    /\ cpre = <<>>
    /\ cop = [name |-> "new", arg |-> <<>>]

Next ==
    \/ \E in \in RememberInputs : DoRemember(in)
    \/ \E args \in ToolRememberArgs : DoToolRemember(args)
    \/ \E args \in ToolSequenceArgs : DoToolSequence(args)
    \/ \E t \in RetrieveTargets : DoRetrieve(t)
    \/ \E is_global \in BOOLEAN : DoRetrieveAll(is_global)

Spec == Init /\ [][Next]_vars

(***************************************************************************)
(* remember as the steps it takes on the file system, for calls that run   *)
(* at once (in several processes on the same directories): the open, then  *)
(* one step for each writeln!.  The file is opened in append mode, so each *)
(* write lands at the end the file has at that moment; a writeln! on a     *)
(* File is at least one write call.                                        *)
(***************************************************************************)
\* fs::create_dir_all(parent) and OpenOptions::new().append(true).create(true).open()
open_append(f, path) ==
    [dirs |-> f.dirs \cup {path.scope},
     files |-> [f.files EXCEPT ![path.scope] =
                   IF path.name \in DOMAIN @ THEN @ ELSE MapPut(@, path.name, <<>>)]]

\* A write to a file opened in append mode.
write_append(f, path, bytes) ==
    [f EXCEPT !.files[path.scope] = MapPut(@, path.name, Content(f, path) \o bytes)]

\* Mutant: the tag line is held back in a buffer instead of being written.
write_tags_buffered(f, path, tags) == f

\* if !tags.is_empty() { writeln!(file, "# {}", tags.join(" "))?; }
write_tags(f, path, tags) ==
    IF tags # <<>> THEN write_append(f, path, TagLine(tags)) ELSE f

\* writeln!(file, "{}\n", data)?
write_data(f, path, data) == write_append(f, path, DataLines(data))

\* What the calls that run at once are given.
ConcInputs ==
    {[category |-> CatC, is_global |-> FALSE, lines |-> <<LineP>>, tags |-> <<TagT>>],
     [category |-> CatC, is_global |-> FALSE, lines |-> <<LineQ>>, tags |-> <<TagU>>],
     [category |-> CatC, is_global |-> FALSE, lines |-> <<LineQ>>, tags |-> <<>>],
     [category |-> CatD, is_global |-> FALSE, lines |-> <<LineP>>, tags |-> <<TagT>>]}

Started == Len(log) + Cardinality({w \in Writers : writers[w] # Idle})

PathOf(in) == get_memory_file(in.category, in.is_global)

RememberOpen(w, in) ==
    /\ writers[w] = Idle
    /\ Started < MaxRecords
    /\ fs' = open_append(fs, PathOf(in))
    /\ spre' = fs
    /\ sop' = [name |-> "remember_open", category |-> in.category,
               is_global |-> in.is_global]
    /\ writers' = [writers EXCEPT ![w] = [pc |-> "open", in |-> in]]
    /\ UNCHANGED <<sres, log, graphiti, convVars>>

RememberWriteTags(w) ==
    /\ writers[w].pc = "open"
    /\ LET in == writers[w].in
       IN  /\ fs' = write_tags(fs, PathOf(in), in.tags)
           /\ spre' = fs
           /\ sop' = [name |-> "remember_tags", category |-> in.category,
                      is_global |-> in.is_global]
           /\ writers' = [writers EXCEPT ![w] = [pc |-> "tagged", in |-> in]]
    /\ UNCHANGED <<sres, log, graphiti, convVars>>

RememberWriteData(w) ==
    /\ writers[w].pc = "tagged"
    /\ LET in == writers[w].in
       IN  /\ fs' = write_data(fs, PathOf(in), Join(in.lines, <<NL>>))
           /\ spre' = fs
           /\ sop' = [name |-> "remember", category |-> in.category,
                      is_global |-> in.is_global]
           /\ log' = Append(log, in)
    /\ sres' = OkRes(<<>>)
    /\ writers' = [writers EXCEPT ![w] = Idle]
    /\ UNCHANGED <<graphiti, convVars>>

ConcInit ==
    /\ StoreInit
    /\ messages = <<>>
    /\ cpre = <<>>
    /\ cop = [name |-> "new", arg |-> <<>>]

ConcNext ==
    \/ \E w \in Writers, in \in ConcInputs : RememberOpen(w, in)
    \/ \E w \in Writers : RememberWriteTags(w)
    \/ \E w \in Writers : RememberWriteData(w)
    \/ \E t \in RetrieveTargets : DoRetrieve(t)

SpecConc == ConcInit /\ [][ConcNext]_vars

(***************************************************************************)
(* GraphitiClient (graphiti_client.rs).  The strings of this component are *)
(* TLA+ strings; a character outside ASCII is written as its name in       *)
(* square brackets.                                                        *)
(***************************************************************************)
\* str::contains(pat)
Contains(str, pat) ==
    \E i \in 1..(Len(str) - Len(pat) + 1) : SubSeq(str, i, i + Len(pat) - 1) = pat

LowerCase == "abcdefghijklmnopqrstuvwxyz"

UpperCase == "ABCDEFGHIJKLMNOPQRSTUVWXYZ"

\* char::to_uppercase, on ASCII.
UpperChar(ch) ==
    IF \E i \in 1..Len(LowerCase) : SubSeq(LowerCase, i, i) = ch
    THEN LET i == CHOOSE i \in 1..Len(LowerCase) : SubSeq(LowerCase, i, i) = ch
         IN  SubSeq(UpperCase, i, i)
    ELSE ch

\* str::to_uppercase()
RECURSIVE to_uppercase(_)
to_uppercase(str) ==
    IF str = "" THEN ""
    ELSE UpperChar(SubSeq(str, 1, 1)) \o to_uppercase(SubSeq(str, 2, Len(str)))

\* The JSON text of a string: quoted, with '"' and '\' escaped.
RECURSIVE JsonEscape(_)
JsonEscape(str) ==
    IF str = "" THEN ""
    ELSE LET ch == SubSeq(str, 1, 1)
         IN  (IF ch = "\"" \/ ch = "\\" THEN "\\" \o ch ELSE ch)
             \o JsonEscape(SubSeq(str, 2, Len(str)))

JsonString(str) == "\"" \o JsonEscape(str) \o "\""

\* uuid::Uuid::new_v4(): "uuid-" and the clock's nanoseconds in hexadecimal.
new_v4(nanos_hex) == "uuid-" \o nanos_hex

\* The Display of json!({"entities": [{"name": .., "entityType": ..,
\* "observations": [..]}]}).
CreateEntitiesParams(name, entityType, observation, preserve_order) ==
    "{\"entities\":[{"
    \o (IF preserve_order
        THEN "\"name\":" \o JsonString(name) \o ",\"entityType\":" \o JsonString(entityType)
        ELSE "\"entityType\":" \o JsonString(entityType) \o ",\"name\":" \o JsonString(name))
    \o ",\"observations\":[" \o JsonString(observation) \o "]}]}"

\* GraphitiClient::simulate_mcp_call
simulate_mcp_call(env, server, method, params) ==
    IF env_var(env.ULTRATHINK_GRAPHITI_TEST) # <<>>
    THEN OkRes("[check mark] MCP call to " \o server \o ": " \o method
               \o "(" \o params \o ") - Simulated success")
    ELSE OkRes("[link] Would call MCP " \o server \o "." \o method
               \o "(" \o params \o ") when GRAPHITI_MCP_ENDPOINT is configured")

\* GraphitiClient::store_memory; context is Option<&str>, nanos_hex the clock.
store_memory(g, category, data, context, nanos_hex) ==
    IF g.client.memory_server_endpoint = <<>>
    THEN OkRes("[warning sign] Graphiti MCP endpoint not configured")
    ELSE LET enhanced_data ==
                 IF context # <<>>
                 THEN "[Context: " \o context[1] \o "] " \o data
                 ELSE data
         IN  simulate_mcp_call(g.env, "memory", "create_entities",
                 CreateEntitiesParams(category \o "_" \o new_v4(nanos_hex),
                                      to_uppercase(category), enhanced_data,
                                      g.preserve_order))

\* GraphitiClient::test_connection
test_connection(g) ==
    IF g.client.memory_server_endpoint # <<>>
    THEN OkRes("[green circle] Graphiti MCP endpoint configured: "
               \o g.client.memory_server_endpoint[1])
    ELSE OkRes("[yellow circle] Graphiti MCP endpoint not configured. "
               \o "Set GRAPHITI_MCP_ENDPOINT environment variable.")

\* Err(io::Error::new(kind, message)); the Display of the error is message.
ErrMsg(kind, message) == [ok |-> FALSE, err |-> kind, value |-> message]

ToGraphitiResult == "[outbox tray] Local memories synced to Graphiti"

FromGraphitiResult == "[inbox tray] Memories downloaded from Graphiti"

\* Mutant: a direction that is not known is taken as "bidirectional".
sync_memories_defaults(direction) ==
    IF direction = "to_graphiti" THEN OkRes(ToGraphitiResult)
    ELSE IF direction = "from_graphiti" THEN OkRes(FromGraphitiResult)
    ELSE OkRes("[arrows] Bidirectional sync completed:\n" \o ToGraphitiResult
               \o "\n" \o FromGraphitiResult)

\* GraphitiClient::sync_memories
sync_memories(direction) ==
    IF direction = "to_graphiti" THEN OkRes(ToGraphitiResult)
    ELSE IF direction = "from_graphiti" THEN OkRes(FromGraphitiResult)
    ELSE IF direction = "bidirectional"
    THEN OkRes("[arrows] Bidirectional sync completed:\n" \o ToGraphitiResult
               \o "\n" \o FromGraphitiResult)
    ELSE ErrMsg("InvalidInput",
                "Invalid sync direction. Use: to_graphiti, from_graphiti, or bidirectional")

\* tool_call.arguments["direction"].as_str().unwrap_or("bidirectional"): the
\* argument is absent, a JSON string, or a JSON value of another type.
DirectionOf(arg) == IF arg.kind = "string" THEN arg.str ELSE "bidirectional"

\* Mutant: the error of sync_memories is returned with the ? operator.
tool_graphiti_sync_propagates(args) == sync_memories(DirectionOf(args.direction))

\* execute_tool_call, "ultrathink_graphiti_sync".
tool_graphiti_sync(args) ==
    LET result == sync_memories(DirectionOf(args.direction))
    IN  IF result.ok THEN OkRes(result.value)
        ELSE OkRes("[cross mark] Graphiti sync failed: " \o result.value)

\* The directions handed to sync_memories.
Directions ==
    {"to_graphiti", "from_graphiti", "bidirectional",
     "", "both", "To_Graphiti", "to_graphiti ", "bidirectional\n"}

\* The arguments of an ultrathink_graphiti_sync tool call.
ToolSyncArgs ==
    {[direction |-> [kind |-> "string", str |-> d]] : d \in Directions}
    \cup {[direction |-> [kind |-> "absent", str |-> ""]],
          [direction |-> [kind |-> "number", str |-> ""]]}

\* What store_memory is given.
StoreMemoryInputs ==
    [category : {"test_category", "c"},
     data : {"test data", "p\"q"},
     context : {<<>>, <<"test context">>},
     nanos_hex : {"17a", "2f"}]

GraphitiInit ==
    /\ \E env \in [GRAPHITI_MCP_ENDPOINT : EnvValues, ULTRATHINK_GRAPHITI_TEST : EnvValues],
          preserve_order \in BOOLEAN :
            graphiti = [env |-> env, preserve_order |-> preserve_order,
                        client |-> GraphitiNew(env)]
    /\ writers = [w \in Writers |-> Idle]
    /\ fs = EmptyFs
    /\ spre = EmptyFs
    /\ sop = [name |-> "new"]
    /\ sres = OkRes(<<>>)
    /\ log = <<>>
    /\ messages = <<>>
    /\ cpre = <<>>
    /\ cop = [name |-> "new", arg |-> <<>>]

DoStoreMemory(in) ==
    /\ sop' = [name |-> "store_memory", in |-> in]
    /\ sres' = store_memory(graphiti, in.category, in.data, in.context, in.nanos_hex)
    /\ UNCHANGED <<fs, spre, log, writers, graphiti, convVars>>

DoTestConnection ==
    /\ sop' = [name |-> "test_connection"]
    /\ sres' = test_connection(graphiti)
    /\ UNCHANGED <<fs, spre, log, writers, graphiti, convVars>>

DoSyncMemories(direction) ==
    /\ sop' = [name |-> "sync_memories", direction |-> direction]
    /\ sres' = sync_memories(direction)
    /\ UNCHANGED <<fs, spre, log, writers, graphiti, convVars>>

DoToolGraphitiSync(args) ==
    /\ sop' = [name |-> "ultrathink_graphiti_sync", args |-> args]
    /\ sres' = tool_graphiti_sync(args)
    /\ UNCHANGED <<fs, spre, log, writers, graphiti, convVars>>

GraphitiNext ==
    \/ \E in \in StoreMemoryInputs : DoStoreMemory(in)
    \/ DoTestConnection
    \/ \E direction \in Directions : DoSyncMemories(direction)
    \/ \E args \in ToolSyncArgs : DoToolGraphitiSync(args)

SpecGraphiti == GraphitiInit /\ [][GraphitiNext]_vars

(***************************************************************************)
(* Properties of the conversation.                                         *)
(***************************************************************************)
NoAdjacentSameId(msgs) ==
    \A i \in 1..(Len(msgs) - 1) :
        msgs[i].id = NoId \/ msgs[i].id # msgs[i + 1].id

\* C1 as stated: after any step from any conversation that Conversation::new
\* accepts, no two adjacent messages have the same non-null id.
C1_NoAdjacentSameIdFromNew == cop.name # "new" => NoAdjacentSameId(messages)

\* C1 as amended: every operation (push_message, push, extend, pop, truncate,
\* clear) applied to a conversation without two adjacent messages of the same
\* non-null id, the empty one included, yields such a conversation.
C1_NoAdjacentSameIdPreserved == NoAdjacentSameId(cpre) => NoAdjacentSameId(messages)

\* C1 witness: a message was merged into the tail of a two-message conversation
\* that had no two adjacent messages of the same non-null id.
C1_Witness ==
    /\ cop.name = "push_message"
    /\ Len(cpre) = 2
    /\ NoAdjacentSameId(cpre)
    /\ cpre[2].id # NoId
    /\ cop.arg.id = cpre[2].id
    /\ Len(messages) = 2

(***************************************************************************)
(* C5: a message pushed whole against the same message pushed as two       *)
(* fragments.  cpre = <<f1>> is the fresh conversation after the first     *)
(* fragment f1, cop.arg is the second fragment f2.                         *)
(***************************************************************************)
SplitCase ==
    /\ cop.name = "push_message"
    /\ Len(cpre) = 1
    /\ cpre = push_message(<<>>, cpre[1])
    /\ cpre[1].id # NoId
    /\ cop.arg.id = cpre[1].id

\* The message of which (f1, f2) is a split of the block sequence.
BlockWhole(f1, f2) == Message(f1.id, f1.content \o f2.content)

\* (f1, f2) is a split inside a Text block: f1 ends and f2 starts with Text.
TextSplit(f1, f2) ==
    /\ f1.content # <<>>
    /\ Last(f1.content).kind = "Text"
    /\ f2.content # <<>>
    /\ f2.content[1].kind = "Text"

\* The message of which (f1, f2) is a split of a Text block's string.
TextWhole(f1, f2) ==
    Message(f1.id,
            Front(f1.content)
            \o <<Text(Last(f1.content).text \o f2.content[1].text)>>
            \o Tail(f2.content))

\* A block sequence with every run of adjacent Text blocks joined into one.
RECURSIVE Coalesce(_)
Coalesce(content) ==
    IF Len(content) < 2 THEN content
    ELSE IF content[1].kind = "Text" /\ content[2].kind = "Text"
         THEN Coalesce(<<Text(content[1].text \o content[2].text)>>
                       \o SubSeq(content, 3, Len(content)))
         ELSE <<content[1]>> \o Coalesce(Tail(content))

\* C5 as stated: the two fragments pushed in order onto a fresh conversation
\* give the same messages as the whole message pushed alone, for a split of
\* the block sequence and for a split of a Text block's string.
C5_SplitEqualsWhole ==
    SplitCase =>
        LET f1 == cpre[1]
            f2 == cop.arg
        IN  /\ messages = push_message(<<>>, BlockWhole(f1, f2))
            /\ TextSplit(f1, f2) => messages = push_message(<<>>, TextWhole(f1, f2))

\* C5 as amended: the two fragments give one message with M's id whose content
\* equals M's up to joining adjacent Text blocks; the block sequences are equal
\* exactly when, for a split of the block sequence, it is not the case that the
\* first fragment ends with Text and the second is a single Text block, and,
\* for a split of a Text block's string, the second fragment is that one block.
C5_SplitEqualsWholeUpToCoalescing ==
    SplitCase =>
        LET f1 == cpre[1]
            f2 == cop.arg
            endsText == f1.content # <<>> /\ Last(f1.content).kind = "Text"
            oneText == Len(f2.content) = 1 /\ f2.content[1].kind = "Text"
        IN  /\ Len(messages) = 1
            /\ messages[1].id = f1.id
            /\ Coalesce(messages[1].content) = Coalesce(BlockWhole(f1, f2).content)
            /\ (messages = push_message(<<>>, BlockWhole(f1, f2)))
                   <=> ~(endsText /\ oneText)
            /\ TextSplit(f1, f2) =>
                /\ Coalesce(messages[1].content) = Coalesce(TextWhole(f1, f2).content)
                /\ (messages = push_message(<<>>, TextWhole(f1, f2)))
                       <=> Len(f2.content) = 1

\* C5 witness: a Text block's string split in two, the second fragment being
\* that one block, gave the whole message.
C5_Witness ==
    /\ SplitCase
    /\ TextSplit(cpre[1], cop.arg)
    /\ Len(cop.arg.content) = 1
    /\ Len(cpre[1].content) = 2
    /\ messages = push_message(<<>>, TextWhole(cpre[1], cop.arg))

\* C6: when the last message has the incoming message's non-null id, ends with
\* a Text block, and the incoming message is exactly one Text block,
\* push_message appends the incoming text to that block in place: the number
\* of messages and of blocks is unchanged and the text is old then incoming.
C6_TextMergedInPlace ==
    (/\ cop.name = "push_message"
     /\ cpre # <<>>
     /\ Last(cpre).id # NoId
     /\ Last(cpre).id = cop.arg.id
     /\ Last(cpre).content # <<>>
     /\ Last(Last(cpre).content).kind = "Text"
     /\ Len(cop.arg.content) = 1
     /\ cop.arg.content[1].kind = "Text")
    => /\ Len(messages) = Len(cpre)
       /\ Len(Last(messages).content) = Len(Last(cpre).content)
       /\ Last(Last(messages).content) =
              Text(Last(Last(cpre).content).text \o cop.arg.content[1].text)
       /\ Front(Last(messages).content) = Front(Last(cpre).content)

\* C6 witness: "a" then "b" under one id gave the single block "ab".
C6_Witness ==
    /\ cop.name = "push_message"
    /\ cpre # <<>>
    /\ Last(cpre).id # NoId
    /\ Last(cpre).id = cop.arg.id
    /\ Last(cpre).content = <<Other, Text(<<"a">>)>>
    /\ cop.arg.content = <<Text(<<"b">>)>>
    /\ Last(messages).content = <<Other, Text(<<"a", "b">>)>>

\* The text-concatenation case of C6, stated on the state before the push.
C6Case ==
    /\ Last(cpre).content # <<>>
    /\ Last(Last(cpre).content).kind = "Text"
    /\ Len(cop.arg.content) = 1
    /\ cop.arg.content[1].kind = "Text"

\* C7: when the ids match and the text-concatenation case does not apply,
\* push_message appends all incoming blocks in order to the last message; the
\* message count, the last message's id and its existing blocks are unchanged.
C7_BlocksAppended ==
    (/\ cop.name = "push_message"
     /\ cpre # <<>>
     /\ Last(cpre).id # NoId
     /\ Last(cpre).id = cop.arg.id
     /\ ~C6Case)
    => /\ Len(messages) = Len(cpre)
       /\ Last(messages).id = Last(cpre).id
       /\ Last(messages).content = Last(cpre).content \o cop.arg.content
       /\ Front(messages) = Front(cpre)

\* C7 witness: two incoming blocks, the last one Text, were appended after an
\* existing Text block.
C7_Witness ==
    /\ cop.name = "push_message"
    /\ cpre # <<>>
    /\ Last(cpre).id # NoId
    /\ Last(cpre).id = cop.arg.id
    /\ Last(cpre).content = <<Text(<<"a">>)>>
    /\ cop.arg.content = <<Other, Text(<<"b">>)>>
    /\ Last(messages).content = <<Text(<<"a">>), Other, Text(<<"b">>)>>

\* C8: when the conversation is empty, or either id is null, or the ids
\* differ, push_message adds the incoming message unmodified at the tail: len
\* grows by one and the previous messages keep position and content.
C8_PushedAsNewTail ==
    (/\ cop.name = "push_message"
     /\ \/ cpre = <<>>
        \/ cop.arg.id = NoId
        \/ Last(cpre).id = NoId
        \/ Last(cpre).id # cop.arg.id)
    => /\ Len(messages) = Len(cpre) + 1
       /\ Last(messages) = cop.arg
       /\ SubSeq(messages, 1, Len(cpre)) = cpre

\* C8 witness: a message without id was pushed after a message without id.
C8_Witness ==
    /\ cop.name = "push_message"
    /\ Len(cpre) = 1
    /\ cpre[1].id = NoId
    /\ cop.arg.id = NoId
    /\ messages = <<cpre[1], cop.arg>>

\* C14: truncate(n) leaves the first min(n, len) messages, each as it was;
\* it changes nothing when n >= len; and truncate(1) of a conversation of at
\* least one message leaves len 1 with first() and last() the same message.
C14_TruncateKeepsPrefix ==
    cop.name = "truncate" =>
        LET n == cop.arg
        IN  /\ Len(messages) = (IF n <= Len(cpre) THEN n ELSE Len(cpre))
            /\ \A i \in 1..Len(messages) : messages[i] = cpre[i]
            /\ n >= Len(cpre) => messages = cpre
            /\ (n = 1 /\ Len(cpre) >= 1) =>
                /\ Len(messages) = 1
                /\ first(messages) = last(messages)
                /\ first(messages) = <<cpre[1]>>

\* C14 witness: truncate(1) of three messages left the first one.
C14_Witness ==
    /\ cop.name = "truncate"
    /\ cop.arg = 1
    /\ Len(cpre) = 3
    /\ cpre[1] # cpre[3]
    /\ messages = <<cpre[1]>>

\* C19: push_message leaves every message but the last one in its position
\* with its id and content, and len stays the same or grows by exactly one.
C19_OnlyTailChanges ==
    cop.name \in {"push_message", "push"} =>
        /\ Len(messages) \in {Len(cpre), Len(cpre) + 1}
        /\ \A i \in 1..(Len(cpre) - 1) : messages[i] = cpre[i]

\* C19 witness: a merge into the second of two messages changed it and left
\* the first one.
C19_Witness ==
    /\ cop.name = "push_message"
    /\ Len(cpre) = 2
    /\ Len(messages) = 2
    /\ messages[1] = cpre[1]
    /\ messages[2] # cpre[2]
    /\ cpre[1] # cpre[2]

\* The text of all Text blocks of a block sequence, concatenated in order.
RECURSIVE ContentText(_)
ContentText(content) ==
    IF content = <<>> THEN <<>>
    ELSE (IF content[1].kind = "Text" THEN content[1].text ELSE <<>>)
         \o ContentText(Tail(content))

RECURSIVE AllText(_)
AllText(msgs) ==
    IF msgs = <<>> THEN <<>>
    ELSE ContentText(msgs[1].content) \o AllText(Tail(msgs))

IsNonText(block) == block.kind # "Text"

\* The blocks that are not Text, over all messages in order.
RECURSIVE NonText(_)
NonText(msgs) ==
    IF msgs = <<>> THEN <<>>
    ELSE SelectSeq(msgs[1].content, IsNonText) \o NonText(Tail(msgs))

\* C20: after push_message the text of all Text blocks, concatenated over all
\* messages in order, is what it was followed by the incoming text, and the
\* sequence of the other blocks is what it was followed by the incoming ones.
C20_ContentConserved ==
    cop.name \in {"push_message", "push"} =>
        /\ AllText(messages) = AllText(cpre) \o AllText(<<cop.arg>>)
        /\ NonText(messages) = NonText(cpre) \o NonText(<<cop.arg>>)

\* C20 witness: a message of a non-Text block and a Text block was merged
\* into a conversation that held the text "a".
C20_Witness ==
    /\ cop.name = "push_message"
    /\ Len(messages) = Len(cpre)
    /\ cop.arg.content = <<Other, Text(<<"b">>)>>
    /\ AllText(cpre) = <<"a">>
    /\ NonText(cpre) = <<>>
    /\ AllText(messages) = <<"a", "b">>
    /\ NonText(messages) = <<Other>>

(***************************************************************************)
(* Properties of the store.                                                *)
(***************************************************************************)
\* The records appended so far to the file the last operation addressed.
AppendedToTarget ==
    LET Hits(e) == e.category = sop.category /\ e.is_global = sop.is_global
    IN  SelectSeq(log, Hits)

RECURSIVE ConcatLines(_)
ConcatLines(entries) ==
    IF entries = <<>> THEN <<>>
    ELSE entries[1].lines \o ConcatLines(Tail(entries))

Bucket(key, lines) == [k \in {key} |-> lines]

\* At least one line, and every line non-empty and not ending in "\r".
PlainLines(lines) ==
    /\ lines # <<>>
    /\ \A i \in 1..Len(lines) : lines[i] # <<>> /\ Last(lines[i]) # CR

\* Every tag non-empty and free of whitespace.
PlainTags(tags) ==
    \A i \in 1..Len(tags) :
        /\ tags[i] # <<>>
        /\ \A j \in 1..Len(tags[i]) : tags[i][j] \notin Whitespace

\* C2: two records appended under the same tag-key, the first with the line
\* p and the second with the line q, are retrieved as one bucket [p, q].
C2_SameTagKeyMerged ==
    LET L == AppendedToTarget
    IN  (/\ sop.name = "retrieve"
         /\ Len(L) = 2
         /\ L[1].tags = L[2].tags
         /\ L[1].tags # <<>>
         /\ PlainTags(L[1].tags)
         /\ Len(L[1].lines) = 1 /\ PlainLines(L[1].lines)
         /\ Len(L[2].lines) = 1 /\ PlainLines(L[2].lines))
        => /\ sres.ok
           /\ sres.value = Bucket(Join(L[1].tags, <<SP>>), L[1].lines \o L[2].lines)

\* C3 as stated: one record appended to a category without file, with a
\* non-empty category, a non-empty tag sequence and any content lines, is
\* retrieved as exactly one bucket, keyed by the tags joined with one space,
\* holding exactly the lines.
C3_RoundTrip ==
    LET L == AppendedToTarget
    IN  (/\ sop.name = "retrieve"
         /\ sop.category # <<>>
         /\ Len(L) = 1
         /\ L[1].tags # <<>>)
        => /\ sres.ok
           /\ sres.value = Bucket(Join(L[1].tags, <<SP>>), L[1].lines)

\* C3 as amended: the round trip holds when every tag is non-empty and free of
\* whitespace, and there is at least one content line and every content line
\* is non-empty and does not end in a carriage return.
C3_RoundTripOfPlainRecord ==
    LET L == AppendedToTarget
    IN  (/\ sop.name = "retrieve"
         /\ sop.category # <<>>
         /\ Len(L) = 1
         /\ L[1].tags # <<>>
         /\ PlainTags(L[1].tags)
         /\ PlainLines(L[1].lines))
        => /\ sres.ok
           /\ sres.value = Bucket(Join(L[1].tags, <<SP>>), L[1].lines)

\* C3 witness: tags [t, u] and lines [p, q] came back as {"t u": [p, q]}.
C3_Witness ==
    /\ sop.name = "retrieve"
    /\ sop.category = CatC
    /\ Len(AppendedToTarget) = 1
    /\ AppendedToTarget[1].tags = <<TagT, TagU>>
    /\ AppendedToTarget[1].lines = <<LineP, LineQ>>
    /\ sres = OkRes(Bucket(<<"t", SP, "u">>, <<LineP, LineQ>>))

\* C4 as stated: after any sequence of untagged appends to one category,
\* retrieve returns exactly the bucket "untagged" holding all appended lines
\* in append order.
C4_UntaggedConcatenated ==
    LET L == AppendedToTarget
    IN  (/\ sop.name = "retrieve"
         /\ L # <<>>
         /\ \A i \in 1..Len(L) : L[i].tags = <<>>)
        => /\ sres.ok
           /\ sres.value = Bucket(Untagged, ConcatLines(L))

\* C4 as amended: it holds when every append has at least one line, every
\* line is non-empty and does not end in a carriage return, and the first
\* line of every append does not begin with '#'.
C4_PlainUntaggedConcatenated ==
    LET L == AppendedToTarget
    IN  (/\ sop.name = "retrieve"
         /\ L # <<>>
         /\ \A i \in 1..Len(L) :
             /\ L[i].tags = <<>>
             /\ PlainLines(L[i].lines)
             /\ L[i].lines[1][1] # HASH)
        => /\ sres.ok
           /\ sres.value = Bucket(Untagged, ConcatLines(L))

\* C4 witness: the untagged appends [p, q] and [q] came back as [p, q, q].
C4_Witness ==
    /\ sop.name = "retrieve"
    /\ Len(AppendedToTarget) = 2
    /\ AppendedToTarget[1] = LogEntry(CatC, FALSE, <<LineP, LineQ>>, <<>>)
    /\ AppendedToTarget[2] = LogEntry(CatC, FALSE, <<LineQ>>, <<>>)
    /\ sres = OkRes(Bucket(Untagged, <<LineP, LineQ, LineQ>>))

\* The operations that reach the store's append.
AppendOps == {"remember", "ultrathink_remember", "ultrathink_sequence_save"}

\* C9: an append with an empty category name fails with InvalidInput and
\* writes nothing, on every path: the ultrathink_remember tool call, the
\* ultrathink_sequence tool call with save_to_memory, and remember itself.
C9_EmptyCategoryRejected ==
    (sop.name \in AppendOps /\ sop.category = <<>>)
    => /\ sres = ErrRes("InvalidInput")
       /\ fs = spre

\* C10: retrieve on a category whose file does not exist returns Ok with an
\* empty mapping and creates no file or directory.
C10_MissingCategoryIsEmpty ==
    (/\ sop.name = "retrieve"
     /\ ~Exists(spre, get_memory_file(sop.category, sop.is_global)))
    => /\ sres = OkRes(EmptyMap)
       /\ fs = spre

\* C10 witness: a category without file was retrieved from the local scope,
\* whose directory exists and holds another category's file, while the global
\* scope has no directory.
C10_Witness ==
    /\ sop.name = "retrieve"
    /\ ~Exists(spre, get_memory_file(sop.category, sop.is_global))
    /\ sop.category = CatD
    /\ sop.is_global \in fs.dirs
    /\ TRUE \notin fs.dirs
    /\ sres = OkRes(EmptyMap)

(***************************************************************************)
(* Properties of retrieve_all and of the parse of unusual files.           *)
(***************************************************************************)
\* The category whose file is called name: name without its ".txt" ending.
CategoryOfFile(name) == SubSeq(name, 1, Len(name) - Len(DotTxt))

FilesOf(f, is_global) == DOMAIN f.files[is_global]

Readable(f, is_global, name) == ValidUtf8(f.files[is_global][name])

\* C11: when retrieve_all runs on a scope that holds a file that is not valid
\* UTF-8 and at least one file that is (all of them files of non-empty
\* categories without ".txt" in the name), it returns Ok and the result
\* holds, for every readable file, its category with the lines retrieve
\* returns.
C11_BadFileDoesNotHideOthers ==
    (/\ sop.name = "retrieve_all"
     /\ \E n \in FilesOf(fs, sop.is_global) : ~Readable(fs, sop.is_global, n)
     /\ \E n \in FilesOf(fs, sop.is_global) : Readable(fs, sop.is_global, n)
     /\ \A n \in FilesOf(fs, sop.is_global) :
            CategoryOfFile(n) # <<>> /\ Remove(n, DotTxt) = CategoryOfFile(n))
    => /\ sres.ok
       /\ \A n \in FilesOf(fs, sop.is_global) :
            Readable(fs, sop.is_global, n) =>
                /\ CategoryOfFile(n) \in DOMAIN sres.value
                /\ sres.value[CategoryOfFile(n)] \in
                       Flattenings(retrieve(fs, CategoryOfFile(n), sop.is_global).value)

\* The entries of a file that are not well-formed records: one that is only a
\* tag line, and one that begins with an empty line (what a run of three or
\* more newlines leaves after the split on "\n\n").
TagLed(entry) ==
    /\ Lines(entry) # <<>>
    /\ Lines(entry)[1] # <<>>
    /\ Lines(entry)[1][1] = HASH

TagOnly(entry) == TagLed(entry) /\ Len(Lines(entry)) = 1

BlankLed(entry) == Lines(entry) # <<>> /\ Lines(entry)[1] = <<>>

TagKey(entry) == Join(split_whitespace(Tail(Lines(entry)[1])), <<SP>>)

Elements(seq) == {seq[i] : i \in 1..Len(seq)}

Contiguous(sub, seq) ==
    \E i \in 0..(Len(seq) - Len(sub)) : SubSeq(seq, i + 1, i + Len(sub)) = sub

\* The retrieve of a file that exists and is valid UTF-8.
RetrievedFile ==
    /\ sop.name = "retrieve"
    /\ Exists(fs, get_memory_file(sop.category, sop.is_global))
    /\ ValidUtf8(Content(fs, get_memory_file(sop.category, sop.is_global)))

RetrievedEntries ==
    Elements(SplitRecords(Content(fs, get_memory_file(sop.category, sop.is_global))))

\* C12 as stated: retrieve of a UTF-8 file returns Ok, and every line of an
\* anomalous entry (a record that is only a tag line, an entry left by a run
\* of newlines) is a content line of some bucket of the result.
C12_AnomalyLinesAreContent ==
    RetrievedFile =>
        /\ sres.ok
        /\ \A e \in RetrievedEntries :
            (TagOnly(e) \/ BlankLed(e)) =>
                \A l \in Elements(Lines(e)) :
                    \E k \in DOMAIN sres.value : l \in Elements(sres.value[k])

\* C12 as amended: retrieve of a UTF-8 file returns Ok; of an empty file, the
\* empty mapping; a record that is only a tag line gives its tag-key as a key
\* of the result, with an empty bucket when no other record has that key, and
\* the tag line is not content; an entry that begins with an empty line is
\* read as untagged, and, in a file without a tag line of key "untagged", its
\* lines are in the "untagged" bucket, contiguous and in order.
C12_AnomaliesParsedLeniently ==
    RetrievedFile =>
        LET content == Content(fs, get_memory_file(sop.category, sop.is_global))
            entries == RetrievedEntries
        IN  /\ sres.ok
            /\ content = <<>> => sres.value = EmptyMap
            /\ \A e \in entries :
                /\ TagOnly(e) =>
                    /\ TagKey(e) \in DOMAIN sres.value
                    /\ (\A o \in entries : (TagLed(o) /\ TagKey(o) = TagKey(e)) => TagOnly(o))
                           => sres.value[TagKey(e)] = <<>>
                /\ (BlankLed(e) /\ \A o \in entries : TagLed(o) => TagKey(o) # Untagged) =>
                    /\ Untagged \in DOMAIN sres.value
                    /\ Contiguous(Lines(e), sres.value[Untagged])

\* C12 witness: the file "# t\n\n\n", a tag line without content lines and a
\* run of three newlines, was retrieved as {"t": [], "untagged": [""]}.
C12_Witness ==
    /\ RetrievedFile
    /\ Content(fs, get_memory_file(sop.category, sop.is_global)) =
           <<HASH, SP, "t", NL, NL, NL>>
    /\ sres = OkRes([k \in {TagT, Untagged} |-> IF k = TagT THEN <<>> ELSE <<<<>>>>])

\* C13: retrieve_all returns Ok with, for each category file of the scope,
\* the category as a key whose value is the buckets retrieve returns for that
\* category, each contiguous and in file order, in some order of the buckets.
C13_FlattenedPerCategory ==
    sop.name = "retrieve_all" =>
        /\ sres.ok
        /\ \A n \in FilesOf(fs, sop.is_global) :
            LET r == retrieve(fs, CategoryOfFile(n), sop.is_global)
            IN  /\ r.ok
                /\ CategoryOfFile(n) \in DOMAIN sres.value
                /\ sres.value[CategoryOfFile(n)] \in Flattenings(r.value)

\* C16: a successful append leaves what the category file held as a prefix of
\* what it holds, adds "# " and the tags joined by one space and a newline
\* (only when there are tags), then the data, a newline and an empty line,
\* and leaves every other file of both scopes as it was.
C16_AppendOnly ==
    (sop.name \in AppendOps /\ sres.ok) =>
        LET path == get_memory_file(sop.category, sop.is_global)
            tags == Last(log).tags
            data == Join(Last(log).lines, <<NL>>)
            tagLine == IF tags = <<>> THEN <<>>
                       ELSE <<HASH, SP>> \o Join(tags, <<SP>>) \o <<NL>>
            before == Content(spre, path)
            after == Content(fs, path)
        IN  /\ Exists(fs, path)
            /\ Len(after) >= Len(before)
            /\ SubSeq(after, 1, Len(before)) = before
            /\ SubSeq(after, Len(before) + 1, Len(after)) = tagLine \o data \o <<NL, NL>>
            /\ \A g \in BOOLEAN :
                /\ FilesOf(spre, g) \subseteq FilesOf(fs, g)
                /\ FilesOf(fs, g) \subseteq FilesOf(spre, g) \cup {path.name}
                /\ \A n \in FilesOf(spre, g) :
                       (g # path.scope \/ n # path.name) => fs.files[g][n] = spre.files[g][n]

\* C16 witness: a tagged record of two lines was appended to a file that held
\* a record, while the other scope held a file.
C16_Witness ==
    /\ sop.name = "remember"
    /\ sop.category = CatC
    /\ sop.is_global = FALSE
    /\ Content(spre, get_memory_file(CatC, FALSE)) # <<>>
    /\ FilesOf(fs, TRUE) # {}
    /\ Last(log).tags = <<TagT, TagU>>
    /\ Last(log).lines = <<LineP, LineQ>>
    /\ Content(fs, get_memory_file(CatC, FALSE)) =
           Content(spre, get_memory_file(CatC, FALSE))
           \o <<HASH, SP, "t", SP, "u", NL, "p", NL, "q", NL, NL>>

\* C21: after appends to categories of non-empty name in a scope all of whose
\* files are valid UTF-8, retrieve_all of the scope returns Ok and holds, for
\* every category appended to (a name that contains ".txt" included), the
\* key category with the lines retrieve returns for it.
C21_RetrieveAllHasCategory ==
    (/\ sop.name = "retrieve_all"
     /\ \A n \in FilesOf(fs, sop.is_global) : Readable(fs, sop.is_global, n))
    => \A i \in 1..Len(log) :
           (log[i].is_global = sop.is_global /\ log[i].category # <<>>) =>
               /\ sres.ok
               /\ log[i].category \in DOMAIN sres.value
               /\ sres.value[log[i].category] \in
                      Flattenings(retrieve(fs, log[i].category, sop.is_global).value)

\* The appended records that are untagged, in order.
IsUntagged(e) == e.tags = <<>>

IsTagged(e) == e.tags # <<>>

TagKeysOf(entries) == {Join(entries[i].tags, <<SP>>) : i \in 1..Len(entries)}

\* C22 as stated: every untagged append, one whose first line begins with
\* '#' included, has all its lines in the "untagged" bucket of what retrieve
\* returns, and the result has no bucket but "untagged" and those of the
\* tags of the tagged appends.
C22_UntaggedReadAsUntagged ==
    LET L == AppendedToTarget
    IN  (/\ sop.name = "retrieve"
         /\ L # <<>>
         /\ \A i \in 1..Len(L) :
             /\ PlainLines(L[i].lines)
             /\ PlainTags(L[i].tags))
        => /\ sres.ok
           /\ \A i \in 1..Len(L) :
                IsUntagged(L[i]) =>
                    /\ Untagged \in DOMAIN sres.value
                    /\ Contiguous(L[i].lines, sres.value[Untagged])
           /\ DOMAIN sres.value \subseteq {Untagged} \cup TagKeysOf(SelectSeq(L, IsTagged))

\* C22 as amended: when no untagged append has a first line that begins with
\* '#' (such a line is read as a tag line) and no tagged append has the
\* tag-key "untagged", the "untagged" bucket is exactly the lines of the
\* untagged appends in order, and the buckets are "untagged" (if there was
\* an untagged append) and the tag-keys of the tagged appends.
C22_PlainUntaggedReadAsUntagged ==
    LET L == AppendedToTarget
        U == SelectSeq(L, IsUntagged)
    IN  (/\ sop.name = "retrieve"
         /\ L # <<>>
         /\ \A i \in 1..Len(L) :
             /\ PlainLines(L[i].lines)
             /\ PlainTags(L[i].tags)
             /\ IsUntagged(L[i]) => L[i].lines[1][1] # HASH
             /\ IsTagged(L[i]) => Join(L[i].tags, <<SP>>) # Untagged)
        => /\ sres.ok
           /\ U # <<>> =>
                /\ Untagged \in DOMAIN sres.value
                /\ sres.value[Untagged] = ConcatLines(U)
           /\ DOMAIN sres.value =
                  (IF U # <<>> THEN {Untagged} ELSE {}) \cup TagKeysOf(SelectSeq(L, IsTagged))

\* C22 witness: the line p under the tag t and then the untagged lines p, q
\* came back as {"t": [p], "untagged": [p, q]}.
C22_Witness ==
    /\ sop.name = "retrieve"
    /\ AppendedToTarget = <<LogEntry(CatC, FALSE, <<LineP>>, <<TagT>>),
                            LogEntry(CatC, FALSE, <<LineP, LineQ>>, <<>>)>>
    /\ sres = OkRes([k \in {TagT, Untagged} |->
                        IF k = TagT THEN <<LineP>> ELSE <<LineP, LineQ>>])

(***************************************************************************)
(* Properties of remember calls that run at once.                          *)
(***************************************************************************)
AllIdle == \A w \in Writers : writers[w] = Idle

\* The records of the log appended to the file path, in the order of idx.
RECURSIVE RecordsInOrder(_, _)
RecordsInOrder(recs, idx) ==
    IF idx = <<>> THEN <<>>
    ELSE RecordBytes(Join(recs[idx[1]].lines, <<NL>>), recs[idx[1]].tags)
         \o RecordsInOrder(recs, Tail(idx))

\* C15: when the remember calls that ran at once have returned, every file
\* is the whole records appended to it, one after the other in some order:
\* each record is its tag line (if it has tags) immediately followed by its
\* own content lines and its blank-line terminator.
C15_ConcurrentRecordsWhole ==
    AllIdle =>
        \A in \in ConcInputs :
            LET Hits(e) == PathOf(e) = PathOf(in)
                recs == SelectSeq(log, Hits)
            IN  \E idx \in Orders(1..Len(recs)) :
                    Content(fs, PathOf(in)) = RecordsInOrder(recs, idx)

\* C18: a retrieve that runs after a remember of a tagged record has written
\* its tag line and before it writes its content, on a category nothing else
\* was or is being appended to, returns the record's tag-key with an empty
\* bucket: the record is observed partially written.
C18_ReaderSeesTagWithoutContent ==
    \A w \in Writers :
        (/\ sop.name = "retrieve"
         /\ writers[w].pc = "tagged"
         /\ writers[w].in.tags # <<>>
         /\ PlainTags(writers[w].in.tags)
         /\ PathOf(writers[w].in) = get_memory_file(sop.category, sop.is_global)
         /\ \A o \in Writers \ {w} :
                writers[o] # Idle => PathOf(writers[o].in) # PathOf(writers[w].in)
         /\ AppendedToTarget = <<>>)
        => sres = OkRes(Bucket(Join(writers[w].in.tags, <<SP>>), <<>>))

\* C18 witness: retrieve returned {"t": []} while the remember of the line p
\* under the tag t had written "# t" and not yet p.
C18_Witness ==
    /\ sop.name = "retrieve"
    /\ sop.category = CatC
    /\ writers[1] = [pc |-> "tagged",
                     in |-> [category |-> CatC, is_global |-> FALSE,
                             lines |-> <<LineP>>, tags |-> <<TagT>>]]
    /\ writers[2] = Idle
    /\ log = <<>>
    /\ Content(fs, get_memory_file(CatC, FALSE)) = <<HASH, SP, "t", NL>>
    /\ sres = OkRes(Bucket(TagT, <<>>))

(***************************************************************************)
(* Properties of GraphitiClient.                                           *)
(***************************************************************************)
\* C17: in every configuration of the two environment variables,
\* store_memory returns Ok with a message that contains "MCP call" or
\* "not configured".
C17_StoreMemoryMessage ==
    sop.name = "store_memory" =>
        /\ sres.ok
        /\ Contains(sres.value, "MCP call") \/ Contains(sres.value, "not configured")

ValidDirections == {"to_graphiti", "from_graphiti", "bidirectional"}

\* C23: sync_memories returns Ok exactly for the directions "to_graphiti",
\* "from_graphiti" and "bidirectional", the bidirectional result containing
\* both one-way results, and an InvalidInput error for every other
\* direction; the ultrathink_graphiti_sync tool call always returns Ok, and
\* for a direction that fails its result carries the failure message.
C23_SyncDirections ==
    /\ sop.name = "sync_memories" =>
        /\ sres.ok <=> sop.direction \in ValidDirections
        /\ ~sres.ok => sres.err = "InvalidInput"
        /\ sop.direction = "bidirectional" =>
            /\ Contains(sres.value, "[outbox tray] Local memories synced to Graphiti")
            /\ Contains(sres.value, "[inbox tray] Memories downloaded from Graphiti")
        /\ sop.direction = "to_graphiti" =>
               sres.value = "[outbox tray] Local memories synced to Graphiti"
        /\ sop.direction = "from_graphiti" =>
               sres.value = "[inbox tray] Memories downloaded from Graphiti"
    /\ sop.name = "ultrathink_graphiti_sync" =>
        /\ sres.ok
        /\ (/\ sop.args.direction.kind = "string"
            /\ sop.args.direction.str \notin ValidDirections) =>
               /\ Contains(sres.value, "Graphiti sync failed")
               /\ Contains(sres.value, "Invalid sync direction")
        /\ sop.args.direction.kind # "string" =>
               Contains(sres.value, "Bidirectional sync completed")

\* C23 witness: the tool call with the direction "both" returned Ok with the
\* failure message of sync_memories.
C23_Witness ==
    /\ sop.name = "ultrathink_graphiti_sync"
    /\ sop.args.direction = [kind |-> "string", str |-> "both"]
    /\ sres = OkRes("[cross mark] Graphiti sync failed: Invalid sync direction. "
                    \o "Use: to_graphiti, from_graphiti, or bidirectional")

====
